---- MODULE Spec2Model ----
(***************************************************************************)
(* Model of nevergrad/functions/pyomo/core.py: the Pyomo adapter.          *)
(*                                                                         *)
(* A Pyomo model object lives on a heap (object id -> object).  An object  *)
(* holds its components (variables with their domains, constraints,        *)
(* objectives) and the current value of every variable entry.  The adapter *)
(* holds a reference to the object it evaluates (self._model_instance).    *)
(*                                                                         *)
(* Representable floating-point values are modelled as the integer grid:   *)
(* the order is the order of the floats, and the neighbour of x on the     *)
(* grid stands for the neighbouring representable value of x.              *)
(*                                                                         *)
(* Specifications:                                                         *)
(*   Spec      the constructor on models of many shapes;                   *)
(*   SpecEval  the constructor, then objective and constraint evaluations  *)
(*             one after another;                                          *)
(*   SpecConc  the constructor, then objective evaluations by two threads  *)
(*             whose steps interleave.                                     *)
(***************************************************************************)
EXTENDS Integers, Sequences, FiniteSets, TLC

VARIABLES heap, adapter, call, threads

vars == <<heap, adapter, call, threads>>

\* ------------------------------------------------------------------ bounds

MaxAbs == 3        \* range endpoints are drawn from -MaxAbs..MaxAbs
MaxEntries == 2    \* variable entries of a model (over all its components)
MaxObjs == 2       \* objectives of a model
MaxMembers == 2    \* members of an indexed constraint

\* ------------------------------------------------------------ Python values

\* Optional values: None is the empty sequence, a value v is <<v>>.
None == <<>>
Some(v) == <<v>>

\* Index keys of a variable (k of model_component._data.items()).
NoKey == [t |-> "None", i |-> 0, s |-> "", tup |-> <<>>]
IntKey(n) == [t |-> "int", i |-> n, s |-> "", tup |-> <<>>]
StrKey(str) == [t |-> "str", i |-> 0, s |-> str, tup |-> <<>>]
TupleKey(elems) == [t |-> "tuple", i |-> 0, s |-> "", tup |-> elems]

\* str(n) of a Python int.
Digit(d) == <<"0", "1", "2", "3", "4", "5", "6", "7", "8", "9">>[d + 1]

RECURSIVE NatStr(_)
NatStr(n) == IF n < 10 THEN Digit(n) ELSE NatStr(n \div 10) \o Digit(n % 10)

IntStr(n) == IF n < 0 THEN "-" \o NatStr(-n) ELSE NatStr(n)

\* repr(e) of a tuple element: an int, or a str (in single quotes).
Repr(e) == IF e.t = "str" THEN "'" \o e.s \o "'" ELSE IntStr(e.i)

RECURSIVE JoinRepr(_)
JoinRepr(elems) ==
    IF Len(elems) = 0 THEN ""
    ELSE IF Len(elems) = 1 THEN Repr(elems[1])
    ELSE Repr(elems[1]) \o ", " \o JoinRepr(Tail(elems))

\* str(k) of an index key that is not a str.
PyStr(k) ==
    IF k.t = "int" THEN IntStr(k.i)
    ELSE IF k.t = "tuple" THEN "(" \o JoinRepr(k.tup) \o ")"
    ELSE IF k.t = "str" THEN k.s
    ELSE "None"

\* A variant of _convert_to_ng_name that does not quote str keys.
_convert_to_ng_name_unquoted(pyomo_var_key) == PyStr(pyomo_var_key)

\* The rendering of an index key in a parameter name.

_convert_to_ng_name(pyomo_var_key) ==
    IF pyomo_var_key.t = "str"
    THEN "\"" \o PyStr(pyomo_var_key) \o "\""
    ELSE PyStr(pyomo_var_key)

\* np.nextafter(x, toward) on the grid of representable values.
NextAfter(x, toward) ==
    IF x < toward THEN x + 1
    ELSE IF x > toward THEN x - 1
    ELSE x

\* ------------------------------------------------------------- parameters

\* p.Scalar(lower=lb, upper=ub); set_integer_casting() sets integer.
Scalar(lb, ub) ==
    [kind |-> "Scalar", lower |-> lb, upper |-> ub, integer |-> FALSE, choices |-> <<>>]

set_integer_casting(param) == [param EXCEPT !.integer = TRUE]

\* p.Choice(choices)
Choice(choices) ==
    [kind |-> "Choice", lower |-> None, upper |-> None, integer |-> FALSE, choices |-> choices]

\* params[params_name] = param
SetItem(params, params_name, param) ==
    [n \in DOMAIN params \cup {params_name} |->
        IF n = params_name THEN param ELSE params[n]]

\* The outcome of a translation step: the dictionary, and the message of the
\* NotImplementedError raised ("" when none was).
Ok(params) == [exc |-> "", params |-> params]
Raise(msg, params) == [exc |-> msg, params |-> params]

ErrRangeType == "Cannot handle range type"
ErrDomainType == "Cannot handle domain type"
ErrVariableType == "Cannot handle variable type"
ErrNotImplemented == "NotImplementedError"
ErrAbstractModel == "AbstractModel is not supported"
ErrNoObjective == "Cannot find objective function"
ErrMultiObjective == "Multi-objective function is not supported yet."
ErrConstraintType == "Constraint type is not supported yet."

\* ------------------------------------------------------ domain translation

\* lb after line 35-36: an open lower end is moved by np.nextafter(lb, 1).
NudgeLower(lb, closed0) ==
    IF lb # None /\ ~closed0 THEN Some(NextAfter(lb[1], 1)) ELSE lb

\* ub after line 37-38: an open upper end is moved by np.nextafter(ub, -1).
NudgeUpper(ub, closed1) ==
    IF ub # None /\ ~closed1 THEN Some(NextAfter(ub[1], -1)) ELSE ub

\* A variant of SwapBounds that never swaps.
NoSwapBounds(r) == <<r.start, r.end>>

\* lb, ub of lines 32-34: start and end, swapped when the step is negative.
SwapBounds(r) == IF r.step < 0 THEN <<r.end, r.start>> ELSE <<r.start, r.end>>

\* The parameter of a single numeric range (lines 32-42).
NumericRangeParam(r) ==
    LET b == SwapBounds(r)
        param == Scalar(NudgeLower(b[1], r.closed[1]), NudgeUpper(b[2], r.closed[2]))
    IN  IF r.step \in {-1, 1} THEN set_integer_casting(param) ELSE param

\* range(*r) for each range of the domain (line 47).
RangeChoices(ranges) == [i \in 1..Len(ranges) |-> <<ranges[i].start, ranges[i].end, ranges[i].step>>]

_make_pyomo_range_set_to_parametrization(domain, params, params_name) ==
    LET ranges == domain.ranges
        num_ranges == Len(ranges)
    IN  IF num_ranges = 1 /\ ranges[1].step \in {-1, 0, 1}
        THEN IF ranges[1].kind = "NumericRange"
             THEN Ok(SetItem(params, params_name, NumericRangeParam(ranges[1])))
             ELSE Raise(ErrRangeType, params)
        ELSE IF domain.isFiniteSimpleRangeSet
        THEN Ok(SetItem(params, params_name, Choice(RangeChoices(ranges))))
        ELSE Raise(ErrDomainType, params)

\* ---------------------------------------------------- variable translation

ParamName(name, k) ==
    IF k = NoKey THEN name ELSE name \o "[" \o _convert_to_ng_name(k) \o "]"

\* A variant of EntryToParametrization without the is_fixed() test.
EntryIgnoringFixed(name, k, v, params) ==
    IF v.general
    THEN LET params_name == ParamName(name, k)
         IN  IF v.domain.isRangeSet
             THEN _make_pyomo_range_set_to_parametrization(v.domain, params, params_name)
             ELSE IF v.domain.isSet /\ v.domain.isfinite
             THEN IF v.domain.isordered
                  THEN Ok(SetItem(params, params_name, Choice(v.domain.ordered_data)))
                  ELSE Ok(SetItem(params, params_name, Choice(v.domain.data)))
             ELSE Raise(ErrDomainType, params)
    ELSE Raise(ErrVariableType, params)

\* One entry (k, v) of model_component._data (lines 62-79).
EntryToParametrization(name, k, v, params) ==
    IF v.general
    THEN IF v.fixed
         THEN Raise(ErrNotImplemented, params)
         ELSE LET params_name == ParamName(name, k)
              IN  IF v.domain.isRangeSet
                  THEN _make_pyomo_range_set_to_parametrization(v.domain, params, params_name)
                  ELSE IF v.domain.isSet /\ v.domain.isfinite
                  THEN IF v.domain.isordered
                       THEN Ok(SetItem(params, params_name, Choice(v.domain.ordered_data)))
                       ELSE Ok(SetItem(params, params_name, Choice(v.domain.data)))
                  ELSE Raise(ErrDomainType, params)
    ELSE Raise(ErrVariableType, params)

\* The loop of line 61 over the entries data[i..].
RECURSIVE EntriesToParametrization(_, _, _, _)
EntriesToParametrization(name, data, i, params) ==
    IF i > Len(data) THEN Ok(params)
    ELSE LET r == EntryToParametrization(name, data[i].key, data[i].v, params)
         IN  IF r.exc # "" THEN r
             ELSE EntriesToParametrization(name, data, i + 1, r.params)

_make_pyomo_variable_to_parametrization(model_component, params) ==
    IF model_component.ctype \notin {"IndexedVar", "SimpleVar"}
    THEN Raise(ErrNotImplemented, params)
    ELSE EntriesToParametrization(model_component.name, model_component.data, 1, params)

\* ------------------------------------------------------------ model objects

\* The entries of a variable component, as coordinates <<name, key>>.
ComponentCoords(c) == {<<c.name, c.data[i].key>> : i \in 1..Len(c.data)}

RECURSIVE CoordsOf(_)
CoordsOf(varseq) ==
    IF Len(varseq) = 0 THEN {}
    ELSE ComponentCoords(varseq[1]) \cup CoordsOf(Tail(varseq))

\* A ConcreteModel (or an AbstractModel: concrete = FALSE) with every
\* variable entry at value 0.
ModelObject(concrete, varseq, constraints, objectives) ==
    [concrete |-> concrete, vars |-> varseq, constraints |-> constraints,
     objectives |-> objectives, value |-> [c \in CoordsOf(varseq) |-> 0]]

\* The object the caller passes to Pyomo(model).
CallerRef == 1

NoRef == 0

\* A variant of clone that hands back the object itself.
clone_alias(h, ref) == [heap |-> h, ref |-> ref]

\* model.clone(): a new object with the same content (line 104).
clone(h, ref) ==
    LET new == Cardinality(DOMAIN h) + 1
    IN  [heap |-> [o \in DOMAIN h \cup {new} |-> IF o = new THEN h[ref] ELSE h[o]],
         ref |-> new]

\* component_objects(ctype, active=True): the positions of the active ones.
RECURSIVE ActiveComponents(_, _)
ActiveComponents(comps, i) ==
    IF i > Len(comps) THEN <<>>
    ELSE IF comps[i].active THEN <<i>> \o ActiveComponents(comps, i + 1)
    ELSE ActiveComponents(comps, i + 1)

\* The loop of lines 116-118: all_vars and instru_params after it, or the
\* error that ended it.
RECURSIVE VarsToParametrization(_, _, _, _)
VarsToParametrization(varseq, i, all_vars, params) ==
    IF i > Len(varseq) THEN [exc |-> "", params |-> params, all_vars |-> all_vars]
    ELSE LET r == _make_pyomo_variable_to_parametrization(varseq[i], params)
         IN  IF r.exc # ""
             THEN [exc |-> r.exc, params |-> r.params, all_vars |-> Append(all_vars, i)]
             ELSE VarsToParametrization(varseq, i + 1, Append(all_vars, i), r.params)

\* ------------------------------------------------------------- the adapter

NewAdapter ==
    [state |-> "new", exc |-> "", model_instance |-> NoRef,
     all_vars |-> <<>>, all_constraints |-> <<>>, all_objectives |-> <<>>,
     instru_params |-> <<>>, parametrization |-> <<>>]

\* A variant of ObjectivesError without the test of line 131.
ObjectivesErrorAtLeastOne(all_objectives) ==
    IF Len(all_objectives) = 0 THEN ErrNoObjective ELSE ""

\* The objectives check of lines 128-132.
ObjectivesError(all_objectives) ==
    IF Len(all_objectives) = 0 THEN ErrNoObjective
    ELSE IF Len(all_objectives) > 1 THEN ErrMultiObjective
    ELSE ""

\* Pyomo.__init__(model) on the heap h: the heap and the adapter after it.
PyomoInit(h, model) ==
    IF ~h[model].concrete
    THEN [heap |-> h,
          adapter |-> [NewAdapter EXCEPT !.state = "failed", !.exc = ErrAbstractModel]]
    ELSE LET cl == clone(h, model)
             inst == cl.heap[cl.ref]
             vs == VarsToParametrization(inst.vars, 1, <<>>, <<>>)
             cons == ActiveComponents(inst.constraints, 1)
             objs == ActiveComponents(inst.objectives, 1)
             base == [NewAdapter EXCEPT !.model_instance = cl.ref,
                                        !.all_vars = vs.all_vars,
                                        !.instru_params = vs.params]
         IN  IF vs.exc # ""
             THEN [heap |-> cl.heap,
                   adapter |-> [base EXCEPT !.state = "failed", !.exc = vs.exc]]
             ELSE IF ObjectivesError(objs) # ""
             THEN [heap |-> cl.heap,
                   adapter |-> [base EXCEPT !.state = "failed",
                                            !.exc = ObjectivesError(objs),
                                            !.all_constraints = cons,
                                            !.all_objectives = objs]]
             ELSE [heap |-> cl.heap,
                   adapter |-> [base EXCEPT !.state = "ready",
                                            !.all_constraints = cons,
                                            !.all_objectives = objs,
                                            !.parametrization = vs.params]]

\* The last evaluation call: its arguments and what it returned (result of an
\* objective call, feasible of a constraint call); changed tells that an
\* earlier call had injected another candidate.
NoCall ==
    [kind |-> "none", i |-> 0, kwargs |-> <<>>, exc |-> "", result |-> 0,
     feasible |-> FALSE, changed |-> FALSE]

Construct ==
    /\ adapter.state = "new"
    /\ LET r == PyomoInit(heap, CallerRef)
       IN  /\ heap' = r.heap
           /\ adapter' = r.adapter
    /\ UNCHANGED <<call, threads>>

\* -------------------------------------------------------------- evaluation

\* The literal that f"{v}" writes for a value, read back by exec.
LiteralRange == -(MaxAbs + 1)..(MaxAbs + 1)

ParseLiteral(text) == CHOOSE n \in LiteralRange : IntStr(n) = text

\* A variant of ExecAssign that resolves every name to one entry.
ExecAssignFirstEntry(obj, k, v) ==
    LET target == CHOOSE c \in DOMAIN obj.value : TRUE
    IN  [obj EXCEPT !.value[target] = ParseLiteral(IntStr(v))]

\* exec(f"self._model_instance.{k} = {v}") on the object obj: the target is
\* the entry that the text k names.
ExecAssign(obj, k, v) ==
    LET target == CHOOSE c \in DOMAIN obj.value : ParamName(c[1], c[2]) = k
    IN  [obj EXCEPT !.value[target] = ParseLiteral(IntStr(v))]

\* A variant of Inject that skips the values equal to 0.
RECURSIVE InjectNonZero(_, _, _)
InjectNonZero(obj, kwargs, j) ==
    IF j > Len(kwargs) THEN obj
    ELSE IF kwargs[j].v = 0 THEN InjectNonZero(obj, kwargs, j + 1)
    ELSE InjectNonZero(ExecAssign(obj, kwargs[j].k, kwargs[j].v), kwargs, j + 1)

\* The loop over k_model_variables.items() from item j on (lines 146-148
\* and 154-155).
RECURSIVE Inject(_, _, _)
Inject(obj, kwargs, j) ==
    IF j > Len(kwargs) THEN obj
    ELSE Inject(ExecAssign(obj, kwargs[j].k, kwargs[j].v), kwargs, j + 1)

\* pyomo.value(expr) of a linear expression, a sequence of terms a * c,
\* from term j on.
RECURSIVE ExprValue(_, _, _)
ExprValue(terms, value, j) ==
    IF j > Len(terms) THEN 0
    ELSE terms[j].a * value[terms[j].c] + ExprValue(terms, value, j + 1)

\* pyomo.value of the relational expression  terms <= ub.
Satisfied(member, value) == ExprValue(member.terms, value, 1) <= member.ub

\* A variant of SignedObjective that leaves the sense out.
UnsignedObjective(obj, objective) == ExprValue(objective.terms, obj.value, 1)

\* pyomo.value(objective * objective.sense) (line 149).
SignedObjective(obj, objective) ==
    ExprValue(objective.terms, obj.value, 1) * objective.sense

\* A variant of AllMembers that leaves the loop after its first pass.
FirstMemberOnly(members, value, j, ret) ==
    IF j > Len(members) THEN ret ELSE ret /\ Satisfied(members[j], value)

\* The loop of lines 159-164 over the members, from member j on.
RECURSIVE AllMembers(_, _, _, _)
AllMembers(members, value, j, ret) ==
    IF j > Len(members) THEN ret
    ELSE LET r == ret /\ Satisfied(members[j], value)
         IN  IF ~r THEN r ELSE AllMembers(members, value, j + 1, r)

\* Pyomo._pyomo_obj_function_wrapper(i, **k_model_variables); i counts from 0.
_pyomo_obj_function_wrapper(h, self, i, kwargs) ==
    LET ref == self.model_instance
        obj == Inject(h[ref], kwargs, 1)
        objective == obj.objectives[self.all_objectives[i + 1]]
    IN  [heap |-> [h EXCEPT ![ref] = obj],
         result |-> SignedObjective(obj, objective)]

\* Pyomo._pyomo_constraint_wrapper(i, instru); i counts from 0.
_pyomo_constraint_wrapper(h, self, i, kwargs) ==
    LET ref == self.model_instance
        obj == Inject(h[ref], kwargs, 1)
        con == obj.constraints[self.all_constraints[i + 1]]
        hh == [h EXCEPT ![ref] = obj]
    IN  IF con.ctype = "SimpleConstraint"
        THEN [heap |-> hh, exc |-> "", result |-> Satisfied(con.members[1], obj.value)]
        ELSE IF con.ctype = "IndexedConstraint"
        THEN [heap |-> hh, exc |-> "", result |-> AllMembers(con.members, obj.value, 1, TRUE)]
        ELSE [heap |-> hh, exc |-> ErrConstraintType, result |-> FALSE]

\* The names of the parameters in the order of the dictionary.
RECURSIVE EntryNames(_, _)
EntryNames(varseq, i) ==
    IF i > Len(varseq) THEN <<>>
    ELSE [j \in 1..Len(varseq[i].data) |-> ParamName(varseq[i].name, varseq[i].data[j].key)]
         \o EntryNames(varseq, i + 1)

\* The values the optimizer may propose for a parameter.
ParamValues(param) ==
    IF param.kind = "Choice" THEN {param.choices[j] : j \in 1..Len(param.choices)}
    ELSE (IF param.lower = None THEN -MaxAbs ELSE param.lower[1])
         ..(IF param.upper = None THEN MaxAbs ELSE param.upper[1])

\* The full assignments: one value per declared parameter, from parameter j on.
RECURSIVE Assignments(_, _, _)
Assignments(names, parametrization, j) ==
    IF j > Len(names) THEN {<<>>}
    ELSE {<<[k |-> names[j], v |-> v]>> \o rest :
            v \in ParamValues(parametrization[names[j]]),
            rest \in Assignments(names, parametrization, j + 1)}

Candidates ==
    Assignments(EntryNames(heap[adapter.model_instance].vars, 1), adapter.parametrization, 1)

\* The host calls the objective function on a candidate.
ObjEval ==
    /\ adapter.state = "ready"
    /\ \E kwargs \in Candidates :
         LET r == _pyomo_obj_function_wrapper(heap, adapter, 0, kwargs)
         IN  /\ heap' = r.heap
             /\ call' = [kind |-> "obj", i |-> 0, kwargs |-> kwargs, exc |-> "",
                         result |-> r.result, feasible |-> FALSE,
                         changed |-> call.kind # "none" /\ call.kwargs # kwargs]
    /\ UNCHANGED <<adapter, threads>>

\* The host calls the cheap constraint c_idx on a candidate.
ConEval ==
    /\ adapter.state = "ready"
    /\ \E c_idx \in 0..(Len(adapter.all_constraints) - 1) :
       \E kwargs \in Candidates :
         LET r == _pyomo_constraint_wrapper(heap, adapter, c_idx, kwargs)
         IN  /\ heap' = r.heap
             /\ call' = [kind |-> "con", i |-> c_idx, kwargs |-> kwargs, exc |-> r.exc,
                         result |-> 0, feasible |-> r.result,
                         changed |-> call.kind # "none" /\ call.kwargs # kwargs]
    /\ UNCHANGED <<adapter, threads>>

\* ------------------------------------------------------- the models drawn

Endpoints == -MaxAbs..MaxAbs

OptEndpoints == {None} \cup {Some(e) : e \in Endpoints}

NumericRange(start, end, step, closed) ==
    [kind |-> "NumericRange", start |-> start, end |-> end, step |-> step, closed |-> closed]

NonNumericRange == [NumericRange(None, None, 0, <<TRUE, TRUE>>) EXCEPT !.kind = "NonNumericRange"]

\* The numeric ranges Pyomo builds: a continuous range (step 0) runs from
\* start up to end and may be open; a discrete one is closed, has a start
\* and runs in the direction of its step.
NumericRanges ==
    {NumericRange(s, e, 0, <<c0, c1>>) :
        s \in OptEndpoints, e \in OptEndpoints, c0 \in BOOLEAN, c1 \in BOOLEAN}
    \cup {NumericRange(Some(s), e, st, <<TRUE, TRUE>>) :
        s \in Endpoints, e \in OptEndpoints, st \in {-2, -1, 1, 2}}

ValidRange(r) ==
    \/ r.start = None
    \/ r.end = None
    \/ IF r.step < 0 THEN r.start[1] >= r.end[1] ELSE r.start[1] <= r.end[1]

IsFiniteRange(r) ==
    r.kind = "NumericRange" /\ r.step # 0 /\ r.start # None /\ r.end # None

\* RangeSet(ranges=...): a FiniteSimpleRangeSet when every range is finite.
RangeSetOf(ranges) ==
    [isRangeSet |-> TRUE,
     isFiniteSimpleRangeSet |-> \A i \in 1..Len(ranges) : IsFiniteRange(ranges[i]),
     isSet |-> TRUE,
     isfinite |-> \A i \in 1..Len(ranges) : IsFiniteRange(ranges[i]),
     isordered |-> TRUE, ranges |-> ranges, data |-> <<>>, ordered_data |-> <<>>]

\* Set(initialize=...), ordered or not; Any, a set that is not finite.
OrderedSetOf(data) ==
    [isRangeSet |-> FALSE, isFiniteSimpleRangeSet |-> FALSE, isSet |-> TRUE,
     isfinite |-> TRUE, isordered |-> TRUE, ranges |-> <<>>,
     data |-> data, ordered_data |-> data]

UnorderedSetOf(data) == [OrderedSetOf(data) EXCEPT !.isordered = FALSE, !.ordered_data = <<>>]

AnySet == [OrderedSetOf(<<>>) EXCEPT !.isfinite = FALSE, !.isordered = FALSE]

Reals == RangeSetOf(<<NumericRange(None, None, 0, <<TRUE, TRUE>>)>>)

Binary == RangeSetOf(<<NumericRange(Some(0), Some(1), 1, <<TRUE, TRUE>>)>>)

PyomoIntegers ==
    RangeSetOf(<<NumericRange(Some(0), None, 1, <<TRUE, TRUE>>),
                 NumericRange(Some(0), None, -1, <<TRUE, TRUE>>)>>)

TwoRanges ==
    RangeSetOf(<<NumericRange(Some(0), Some(1), 1, <<TRUE, TRUE>>),
                 NumericRange(Some(3), Some(4), 1, <<TRUE, TRUE>>)>>)

\* The domains of the single-variable models.
WideDomains ==
    {RangeSetOf(<<r>>) : r \in {x \in NumericRanges : ValidRange(x)} \cup {NonNumericRange}}
    \cup {PyomoIntegers, TwoRanges, AnySet, OrderedSetOf(<<0, 2>>), UnorderedSetOf(<<2, 0>>)}

\* A _GeneralVarData with a domain (free), a fixed one, and data of another type.
FreeVar(domain) == [general |-> TRUE, fixed |-> FALSE, domain |-> domain]

FixedVar == [general |-> TRUE, fixed |-> TRUE, domain |-> Reals]

OtherVarData == [general |-> FALSE, fixed |-> FALSE, domain |-> Reals]

VarCatalogue ==
    {FreeVar(Reals), FreeVar(Binary), FreeVar(UnorderedSetOf(<<2, 0>>)),
     FreeVar(AnySet), FreeVar(RangeSetOf(<<NonNumericRange>>)), FixedVar, OtherVarData}

IntElem(n) == [t |-> "int", i |-> n, s |-> ""]

StrElem(str) == [t |-> "str", i |-> 0, s |-> str]

\* The index keys drawn: 1, "1", (1, 2), "(1, 2)" and ('1', 2).
Keys ==
    {IntKey(1), StrKey("1"), TupleKey(<<IntElem(1), IntElem(2)>>), StrKey("(1, 2)"),
     TupleKey(<<StrElem("1"), IntElem(2)>>)}

SimpleVar(name, v) == [name |-> name, ctype |-> "SimpleVar", data |-> <<[key |-> NoKey, v |-> v]>>]

IndexedVar(name, data) == [name |-> name, ctype |-> "IndexedVar", data |-> data]

\* A variable component of another class than SimpleVar and IndexedVar.
OtherComponent(name) == [name |-> name, ctype |-> "OtherVar", data |-> <<>>]

\* The variable data met in indexed variables.
IndexedCatalogue == {FreeVar(Reals), FreeVar(Binary), FreeVar(AnySet), FixedVar}

\* The _data of an indexed variable with n entries: distinct keys, in order.
IndexedData(n) ==
    {d \in [1..n -> [key : Keys, v : IndexedCatalogue]] :
        \A i \in 1..n : \A j \in 1..n : i # j => d[i].key # d[j].key}

\* The variable components named name with n entries.
Components(name, n) ==
    {IndexedVar(name, d) : d \in IndexedData(n)}
    \cup (IF n = 1 THEN {SimpleVar(name, v) : v \in VarCatalogue} ELSE {})
    \cup (IF n = 0 THEN {OtherComponent(name)} ELSE {})

Objective(active, sense, terms) == [active |-> active, sense |-> sense, terms |-> terms]

Minimize == 1

Maximize == -1

ObjectiveSeqs ==
    UNION {[1..n -> {Objective(a, s, <<>>) : a \in BOOLEAN, s \in {Minimize, Maximize}}] :
              n \in 0..MaxObjs}

OneObjective == <<Objective(TRUE, Minimize, <<>>)>>

NoThreads == <<>>

\* The state before the constructor runs on the model m of the caller.
Start(m) ==
    /\ heap = [o \in {CallerRef} |-> m]
    /\ adapter = NewAdapter
    /\ call = NoCall
    /\ threads = NoThreads

\* The models handed to the constructor: one variable over a wide family of
\* domains; variable components x, or x and y, with at most MaxEntries
\* entries in all; up to MaxObjs objectives; an AbstractModel.
InitDomains ==
    \E d \in WideDomains :
        Start(ModelObject(TRUE, <<SimpleVar("x", FreeVar(d))>>, <<>>, OneObjective))

InitVars ==
    \/ \E n \in 0..MaxEntries : \E cx \in Components("x", n) :
          Start(ModelObject(TRUE, <<cx>>, <<>>, OneObjective))
    \/ \E n \in 0..MaxEntries : \E m \in 0..(MaxEntries - n) :
       \E cx \in Components("x", n) : \E cy \in Components("y", m) :
          Start(ModelObject(TRUE, <<cx, cy>>, <<>>, OneObjective))

InitObjectives ==
    \E os \in ObjectiveSeqs :
        \/ Start(ModelObject(TRUE, <<>>, <<>>, os))
        \/ \E v \in VarCatalogue : Start(ModelObject(TRUE, <<SimpleVar("x", v)>>, <<>>, os))
        \/ Start(ModelObject(FALSE, <<>>, <<>>, os))

Init == InitDomains \/ InitVars \/ InitObjectives

Next == Construct

Spec == Init /\ [][Next]_vars

\* ------------------------------------------------------ concurrent calls

\* Two host threads call the objective function of one adapter.  A call
\* injects its candidate one variable at a time, then pyomo.value reads the
\* variables of the expression one term at a time; the interpreter may switch
\* threads between any two of these steps.
Threads == {1, 2}

IdleThread ==
    [pc |-> "idle", kwargs |-> <<>>, pos |-> 0, acc |-> 0, result |-> 0, overlapped |-> FALSE]

Active(t) == threads[t].pc \in {"inject", "value"}

\* One pass of the loop of lines 146-148: item pos of the candidate.
InjectItem(h, self, kwargs, pos) ==
    [h EXCEPT ![self.model_instance] = ExecAssign(@, kwargs[pos].k, kwargs[pos].v)]

\* pyomo.value reads the variable of term pos of objective i.
ReadTerm(h, self, i, pos, acc) ==
    LET obj == h[self.model_instance]
        term == obj.objectives[self.all_objectives[i + 1]].terms[pos]
    IN  acc + term.a * obj.value[term.c]

TermCount(h, self, i) ==
    Len(h[self.model_instance].objectives[self.all_objectives[i + 1]].terms)

\* float(pyomo.value(objective * sense)) once every term is read.
SignedResult(h, self, i, acc) ==
    acc * h[self.model_instance].objectives[self.all_objectives[i + 1]].sense

\* Thread t enters _pyomo_obj_function_wrapper(0, **kwargs).
CallObj(t) ==
    /\ adapter.state = "ready"
    /\ threads[t].pc \in {"idle", "done"}
    /\ \E kwargs \in Candidates :
         threads' = [u \in Threads |->
            IF u = t
            THEN [pc |-> "inject", kwargs |-> kwargs, pos |-> 1, acc |-> 0, result |-> 0,
                  overlapped |-> \E o \in Threads \ {t} : Active(o)]
            ELSE IF Active(u) THEN [threads[u] EXCEPT !.overlapped = TRUE]
            ELSE threads[u]]
    /\ UNCHANGED <<heap, adapter, call>>

\* Thread t executes one exec(...) of the loop.
InjectStep(t) ==
    /\ threads[t].pc = "inject"
    /\ heap' = InjectItem(heap, adapter, threads[t].kwargs, threads[t].pos)
    /\ threads' = [threads EXCEPT ![t] =
          IF threads[t].pos = Len(threads[t].kwargs)
          THEN [@ EXCEPT !.pc = "value", !.pos = 1]
          ELSE [@ EXCEPT !.pos = @ + 1]]
    /\ UNCHANGED <<adapter, call>>

\* Thread t reads one more term of the objective, and returns after the last.
ValueStep(t) ==
    /\ threads[t].pc = "value"
    /\ LET acc == ReadTerm(heap, adapter, 0, threads[t].pos, threads[t].acc)
       IN  threads' = [threads EXCEPT ![t] =
              IF threads[t].pos = TermCount(heap, adapter, 0)
              THEN [@ EXCEPT !.pc = "done", !.acc = acc,
                             !.result = SignedResult(heap, adapter, 0, acc)]
              ELSE [@ EXCEPT !.pos = @ + 1, !.acc = acc]]
    /\ UNCHANGED <<heap, adapter, call>>

\* --------------------------------------------- the models that are evaluated

CX == <<"x", NoKey>>

CY1 == <<"y", IntKey(1)>>

CYS == <<"y", StrKey("1")>>

\* x in {0, 1}, y[1] in {0, 1}, y["1"] in {2, 0}.
EvalVars ==
    <<SimpleVar("x", FreeVar(Binary)),
      IndexedVar("y", <<[key |-> IntKey(1), v |-> FreeVar(Binary)],
                        [key |-> StrKey("1"), v |-> FreeVar(UnorderedSetOf(<<2, 0>>))]>>)>>

ObjCoefs == {-1, 2}

\* a1 * x + a2 * y[1] + a3 * y["1"]
LinearTerms(a1, a2, a3) == <<[c |-> CX, a |-> a1], [c |-> CY1, a |-> a2], [c |-> CYS, a |-> a3]>>

\* The member  c <= ub  of a constraint.
Member(c, ub) == [terms |-> <<[c |-> c, a |-> 1]>>, ub |-> ub]

\* x <= 0, y[1] <= 0, y["1"] <= 1: each one holds at some candidates only.
Members == {Member(CX, 0), Member(CY1, 0), Member(CYS, 1)}

Constraint(ctype, members) == [active |-> TRUE, ctype |-> ctype, members |-> members]

\* A deactivated objective ahead of the active one.
InactiveObjective == Objective(FALSE, Maximize, LinearTerms(1, 1, 1))

InitEval ==
    \E a1 \in ObjCoefs : \E a2 \in {1} : \E a3 \in ObjCoefs :
    \E sense \in {Minimize, Maximize} :
    \E os \in {<<Objective(TRUE, sense, LinearTerms(a1, a2, a3))>>,
               <<InactiveObjective, Objective(TRUE, sense, LinearTerms(a1, a2, a3))>>} :
        \/ Start(ModelObject(TRUE, EvalVars, <<>>, os))
        \/ Start(ModelObject(TRUE, EvalVars, <<Constraint("OtherConstraint", <<>>)>>, os))
        \/ \E m \in Members :
              Start(ModelObject(TRUE, EvalVars, <<Constraint("SimpleConstraint", <<m>>)>>, os))
        \/ \E n \in 0..MaxMembers : \E ms \in [1..n -> Members] :
              Start(ModelObject(TRUE, EvalVars, <<Constraint("IndexedConstraint", ms)>>, os))

NextEval == Construct \/ ObjEval \/ ConEval

SpecEval == InitEval /\ [][NextEval]_vars

\* ------------------------------------------ the models called concurrently

\* y[1] in {0, 1}, y["1"] in {0, 1}.
ConcVars ==
    <<IndexedVar("y", <<[key |-> IntKey(1), v |-> FreeVar(Binary)],
                        [key |-> StrKey("1"), v |-> FreeVar(Binary)]>>)>>

InitConc ==
    /\ \E a1 \in {1, 2} : \E a2 \in {2, 4} : \E sense \in {Minimize, Maximize} :
          heap = [o \in {CallerRef} |->
                     ModelObject(TRUE, ConcVars, <<>>,
                         <<Objective(TRUE, sense, <<[c |-> CY1, a |-> a1], [c |-> CYS, a |-> a2]>>)>>)]
    /\ adapter = NewAdapter
    /\ call = NoCall
    /\ threads = [t \in Threads |-> IdleThread]

NextConc == Construct \/ \E t \in Threads : CallObj(t) \/ InjectStep(t) \/ ValueStep(t)

SpecConc == InitConc /\ [][NextConc]_vars

\* ------------------------------------------------- claims on construction

\* The model the caller passed, and whether the constructor has run.
Given == heap[CallerRef]

Constructed == adapter.state # "new"

ActiveObjectives == {i \in 1..Len(Given.objectives) : Given.objectives[i].active}

UnsupportedDomainErrors == {ErrRangeType, ErrDomainType, ErrVariableType, ErrNotImplemented}

\* The entries <<component, position>> of the model's variables.
Entries == {<<c, j>> : c \in 1..Len(Given.vars), j \in 1..MaxEntries + 1}
           \cap UNION {{<<c, j>> : j \in 1..Len(Given.vars[c].data)} : c \in 1..Len(Given.vars)}

EntryVar(e) == Given.vars[e[1]].data[e[2]].v

EntryName(e) == ParamName(Given.vars[e[1]].name, Given.vars[e[1]].data[e[2]].key)

\* The domain shapes the translator recognizes.
SingleUnitRange(d) ==
    d.isRangeSet /\ Len(d.ranges) = 1 /\ d.ranges[1].step \in {-1, 0, 1}

RecognizedDomain(d) ==
    \/ SingleUnitRange(d) /\ d.ranges[1].kind = "NumericRange"
    \/ d.isRangeSet /\ ~SingleUnitRange(d) /\ d.isFiniteSimpleRangeSet
    \/ ~d.isRangeSet /\ d.isSet /\ d.isfinite

UnboundedRange(d) ==
    d.isRangeSet /\ \E i \in 1..Len(d.ranges) :
        d.ranges[i].kind = "NumericRange" /\ (d.ranges[i].start = None \/ d.ranges[i].end = None)

UnsupportedEntry(e) ==
    ~EntryVar(e).general \/ EntryVar(e).fixed \/ ~RecognizedDomain(EntryVar(e).domain)

UnsupportedContainer(c) == Given.vars[c].ctype \notin {"SimpleVar", "IndexedVar"}

AllVariablesSupported ==
    /\ \A e \in Entries : ~UnsupportedEntry(e)
    /\ \A c \in 1..Len(Given.vars) : ~UnsupportedContainer(c)

\* C1 as stated: a model with zero active objectives fails with the
\* Missing-Objective error, one with two or more fails with the
\* Multiple-Objectives error, and construction succeeds only with exactly one.
C1_AsStated ==
    Constructed =>
        /\ Cardinality(ActiveObjectives) = 0 =>
              adapter.state = "failed" /\ adapter.exc = ErrNoObjective
        /\ Cardinality(ActiveObjectives) >= 2 =>
              adapter.state = "failed" /\ adapter.exc = ErrMultiObjective
        /\ adapter.state = "ready" => Cardinality(ActiveObjectives) = 1

\* C1 amended: for a concrete model all of whose active variables translate
\* (the model kind and the variables are checked before the objectives), zero
\* active objectives fail with the Missing-Objective error and two or more with
\* the Multiple-Objectives error; and construction succeeds only when exactly
\* one active objective exists.
C1_ObjectiveCount ==
    Constructed =>
        /\ (Given.concrete /\ AllVariablesSupported /\ Cardinality(ActiveObjectives) = 0) =>
              adapter.state = "failed" /\ adapter.exc = ErrNoObjective
        /\ (Given.concrete /\ AllVariablesSupported /\ Cardinality(ActiveObjectives) >= 2) =>
              adapter.state = "failed" /\ adapter.exc = ErrMultiObjective
        /\ adapter.state = "ready" => Cardinality(ActiveObjectives) = 1

\* C1 witness: two active objectives (and an inactive one aside) were refused.
C1_Witness ==
    /\ Constructed /\ Given.concrete /\ AllVariablesSupported
    /\ Cardinality(ActiveObjectives) = 2
    /\ adapter.exc = ErrMultiObjective
    /\ Len(Given.vars) = 1

\* The single numeric range of the only variable x, when the model has one.
HasSingleRange ==
    /\ Given.concrete
    /\ Len(Given.vars) = 1
    /\ Given.vars[1].ctype = "SimpleVar"
    /\ Given.vars[1].data[1].v.general
    /\ ~Given.vars[1].data[1].v.fixed
    /\ SingleUnitRange(Given.vars[1].data[1].v.domain)
    /\ Given.vars[1].data[1].v.domain.ranges[1].kind = "NumericRange"

TheRange == Given.vars[1].data[1].v.domain.ranges[1]

\* The endpoints a <= b of the range as declared, and whether each is closed.
LowerEnd == IF TheRange.step < 0 THEN TheRange.end ELSE TheRange.start

UpperEnd == IF TheRange.step < 0 THEN TheRange.start ELSE TheRange.end

\* C2 as stated: every open lower endpoint a yields the smallest representable
\* value above a as lower bound, and every open upper endpoint b the largest
\* representable value below b as upper bound.
C2_NudgedInward ==
    (Constructed /\ HasSingleRange) =>
        /\ (LowerEnd # None /\ ~TheRange.closed[1]) =>
              adapter.instru_params["x"].lower = Some(LowerEnd[1] + 1)
        /\ (UpperEnd # None /\ ~TheRange.closed[2]) =>
              adapter.instru_params["x"].upper = Some(UpperEnd[1] - 1)

\* C3 as stated: construction aborts with an Unsupported-Domain error whenever
\* a variable is fixed, has an unrecognized domain, an unbounded range, or an
\* unsupported container, and no parameter is produced for that variable.
C3_AsStated ==
    (Constructed /\ Given.concrete) =>
        /\ \A e \in Entries :
              (UnsupportedEntry(e) \/ UnboundedRange(EntryVar(e).domain)) =>
                 /\ adapter.state = "failed"
                 /\ adapter.exc \in UnsupportedDomainErrors
                 /\ EntryName(e) \notin DOMAIN adapter.instru_params
        /\ \A c \in 1..Len(Given.vars) :
              UnsupportedContainer(c) =>
                 adapter.state = "failed" /\ adapter.exc \in UnsupportedDomainErrors

\* C3 amended: construction from a concrete model aborts with an
\* Unsupported-Domain error whenever an active variable is fixed, is not
\* general variable data, has a domain outside the recognized shapes (a single
\* numeric range of step -1, 0 or 1, bounded or not; a finite simple range
\* set; a finite set) or sits in a container that is neither a plain nor an
\* indexed variable; no parameter is produced for that variable and no
\* parameter space is registered.  An unbounded single range is accepted.
C3_UnsupportedAborts ==
    (Constructed /\ Given.concrete) =>
        /\ \A e \in Entries :
              UnsupportedEntry(e) =>
                 /\ adapter.state = "failed"
                 /\ adapter.exc \in UnsupportedDomainErrors
                 /\ EntryName(e) \notin DOMAIN adapter.instru_params
                 /\ DOMAIN adapter.parametrization = {}
        /\ \A c \in 1..Len(Given.vars) :
              UnsupportedContainer(c) =>
                 /\ adapter.state = "failed"
                 /\ adapter.exc \in UnsupportedDomainErrors
                 /\ DOMAIN adapter.parametrization = {}
        /\ \A e \in Entries :
              (adapter.state = "ready" /\ UnboundedRange(EntryVar(e).domain)) =>
                 EntryName(e) \in DOMAIN adapter.parametrization

\* C3 witness: a fixed entry that follows a free one aborted the construction.
C3_Witness ==
    /\ Constructed /\ Given.concrete
    /\ adapter.state = "failed"
    /\ adapter.exc = ErrNotImplemented
    /\ \E e \in Entries : EntryVar(e).fixed /\ e[2] = 2
    /\ DOMAIN adapter.instru_params # {}

\* C4: after a successful construction every variable entry has exactly one
\* parameter, and distinct entries (variable, index) have distinct names.
C4_OneParameterPerEntry ==
    adapter.state = "ready" =>
        /\ DOMAIN adapter.parametrization = {EntryName(e) : e \in Entries}
        /\ Cardinality(DOMAIN adapter.parametrization) = Cardinality(Entries)
        /\ \A e1 \in Entries : \A e2 \in Entries :
              e1 # e2 => EntryName(e1) # EntryName(e2)

\* C4 witness: a constructed adapter over x[1] and x["1"].
C4_Witness ==
    /\ adapter.state = "ready"
    /\ \E e1 \in Entries : \E e2 \in Entries :
          /\ e1[1] = e2[1]
          /\ Given.vars[e1[1]].data[e1[2]].key = IntKey(1)
          /\ Given.vars[e2[1]].data[e2[2]].key = StrKey("1")

\* C7: a single range with closed endpoints a <= b and step -1, 0 or 1 yields
\* a scalar bounded by exactly a and b, integer-valued iff the step is 1 or -1.
C7_ClosedBounds ==
    (Constructed /\ HasSingleRange /\ LowerEnd # None /\ UpperEnd # None
        /\ TheRange.closed = <<TRUE, TRUE>>) =>
        /\ "x" \in DOMAIN adapter.instru_params
        /\ adapter.instru_params["x"].kind = "Scalar"
        /\ adapter.instru_params["x"].lower = LowerEnd
        /\ adapter.instru_params["x"].upper = UpperEnd
        /\ adapter.instru_params["x"].lower[1] <= adapter.instru_params["x"].upper[1]
        /\ adapter.instru_params["x"].integer <=> TheRange.step \in {-1, 1}

\* C7 witness: a range declared with step -1 from 2 down to -1.
C7_Witness ==
    /\ Constructed /\ HasSingleRange
    /\ TheRange.step = -1 /\ TheRange.start = Some(2) /\ TheRange.end = Some(-1)
    /\ adapter.instru_params["x"].integer

\* --------------------------------------------------- claims on evaluation

\* The value a candidate gives to a variable entry, and the value of a linear
\* expression at a candidate.
CandidateValue(kwargs, c) ==
    kwargs[CHOOSE j \in 1..Len(kwargs) : kwargs[j].k = ParamName(c[1], c[2])].v

RECURSIVE ExprAt(_, _)
ExprAt(terms, kwargs) ==
    IF Len(terms) = 0 THEN 0
    ELSE terms[1].a * CandidateValue(kwargs, terms[1].c) + ExprAt(Tail(terms), kwargs)

TheObjective == Given.objectives[CHOOSE i \in ActiveObjectives : TRUE]

\* C5: the objective evaluator returns the expression's value at the injected
\* assignment times the sense: V when minimizing, -V when maximizing.
C5_SignedObjective ==
    call.kind = "obj" =>
        /\ call.result = ExprAt(TheObjective.terms, call.kwargs) * TheObjective.sense
        /\ TheObjective.sense = Minimize =>
              call.result = ExprAt(TheObjective.terms, call.kwargs)
        /\ TheObjective.sense = Maximize =>
              call.result = -ExprAt(TheObjective.terms, call.kwargs)

\* C5 witness: a maximization objective of value 5 evaluated to -5.
C5_Witness ==
    /\ call.kind = "obj"
    /\ TheObjective.sense = Maximize
    /\ ExprAt(TheObjective.terms, call.kwargs) = 5
    /\ call.result = -5

TheConstraint == Given.constraints[adapter.all_constraints[call.i + 1]]

\* C6: an indexed constraint evaluates to true iff every member is satisfied
\* at the injected assignment, wherever a violated member stands.
C6_EveryMember ==
    (call.kind = "con" /\ TheConstraint.ctype = "IndexedConstraint") =>
        /\ call.exc = ""
        /\ call.feasible <=>
              \A j \in 1..Len(TheConstraint.members) :
                 ExprAt(TheConstraint.members[j].terms, call.kwargs)
                    <= TheConstraint.members[j].ub

\* C6 witness: only the last of several members is violated, and the result is false.
C6_Witness ==
    /\ call.kind = "con" /\ TheConstraint.ctype = "IndexedConstraint"
    /\ Len(TheConstraint.members) >= 2
    /\ \A j \in 1..Len(TheConstraint.members) :
          (ExprAt(TheConstraint.members[j].terms, call.kwargs) <= TheConstraint.members[j].ub)
             <=> j < Len(TheConstraint.members)
    /\ ~call.feasible

\* The heap as the constructor left it: the clone holds the model's values.
AsConstructed == [heap EXCEPT ![adapter.model_instance] = Given]

\* C8: whatever was evaluated before, an evaluation on a full assignment
\* returns what it returns on the adapter as constructed.
C8_HistoryIndependent ==
    /\ call.kind = "obj" =>
          call.result =
             _pyomo_obj_function_wrapper(AsConstructed, adapter, call.i, call.kwargs).result
    /\ call.kind = "con" =>
          /\ call.feasible =
                _pyomo_constraint_wrapper(AsConstructed, adapter, call.i, call.kwargs).result
          /\ call.exc =
                _pyomo_constraint_wrapper(AsConstructed, adapter, call.i, call.kwargs).exc

\* C8 witness: an evaluation of x = 0 after another candidate had set x = 1.
C8_Witness ==
    /\ call.kind = "obj"
    /\ call.changed
    /\ CandidateValue(call.kwargs, CX) = 0
    /\ CandidateValue(call.kwargs, CYS) = 0
    /\ call.result = TheObjective.terms[2].a * TheObjective.sense

\* C10: no evaluation changes the model object of the caller; every injection
\* writes to the adapter's own clone, another object.
C10_OnlyTheClone ==
    [][/\ heap'[CallerRef] = heap[CallerRef]
       /\ adapter'.state = "ready" => adapter'.model_instance # CallerRef
       /\ \A o \in DOMAIN heap : o # adapter'.model_instance => heap'[o] = heap[o]]_vars

\* C10 witness: the clone holds an injected candidate, the caller's model its own values.
C10_Witness ==
    /\ call.kind # "none"
    /\ adapter.model_instance # CallerRef
    /\ heap[adapter.model_instance].value # Given.value
    /\ \A c \in DOMAIN Given.value : Given.value[c] = 0

\* -------------------------------------------------- claims on concurrency

OwnResult(t) == ExprAt(TheObjective.terms, threads[t].kwargs) * TheObjective.sense

\* The candidate of t with the value of y["1"] taken from the candidate of u.
Mixed(t, u) == <<threads[t].kwargs[1], threads[u].kwargs[2]>>

\* C9: a call that ran with no other call in progress on the adapter returns
\* the result of its own candidate (an overlapping call need not: C9_Witness).
C9_SerializedOwnResult ==
    \A t \in Threads :
        (threads[t].pc = "done" /\ ~threads[t].overlapped) =>
            threads[t].result = OwnResult(t)

\* C9 witness: a call that overlapped another returned the result of a mixture
\* of the two candidates, which is not the result of its own candidate.
C9_Witness ==
    \E t \in Threads : \E u \in Threads \ {t} :
        /\ threads[t].pc = "done" /\ threads[t].overlapped
        /\ threads[u].pc # "idle"
        /\ threads[t].result # OwnResult(t)
        /\ threads[t].result = ExprAt(TheObjective.terms, Mixed(t, u)) * TheObjective.sense

====
